---- MODULE Spec2Model ----
(***************************************************************************)
(* Model of the bacterium registry of AgeEnt                               *)
(* (src/src/simulation/simulationManager.js) together with the part of the *)
(* Rapier physics world the registry drives through its handles.           *)
(*                                                                         *)
(* Numbers: JavaScript doubles are modelled in fixed point, one unit being *)
(* a thousandth of a micrometre; a product is rounded to the nearest unit, *)
(* as a double product is rounded to the nearest representable value.      *)
(*                                                                         *)
(* Physics world: every RAPIER.World hands out body and collider handles   *)
(* from its own arenas, starting at 0.  world.removeCollider and           *)
(* world.removeRigidBody look the handle number up in the world they are   *)
(* called on, while the methods of a RigidBody or Collider object          *)
(* (translation, setLinvel, setHalfHeight, setTranslation) act on the      *)
(* world that created the object.  Any engine call may throw; a call that  *)
(* throws has no effect.  A method called on a handle that is no longer    *)
(* live throws.                                                            *)
(*                                                                         *)
(* Scene (src/src/visualization/scene.js): the render/sync loop that       *)
(* drives the registry.  Of a three.js mesh the model keeps userData.id,   *)
(* the length of its capsule geometry and its position; scene, camera,     *)
(* renderer and controls are assigned before the first frame is requested, *)
(* and again right after deleteAll has cleared them, so they are present   *)
(* whenever a callback runs and are not modelled.  JavaScript runs one     *)
(* callback at a time: an animation frame runs to its end before another   *)
(* callback starts, and an async function gives way only at its await.     *)
(*                                                                         *)
(* BacteriaPool (src/src/simulation/bacteriaPool.js): one pool object.     *)
(* createFn and resetFn are the caller's functions: createFn may return    *)
(* any object, a new one or one it has returned before, either function    *)
(* may throw, and neither calls the pool.  The arguments of acquire are    *)
(* handed on to them and are not modelled.                                 *)
(***************************************************************************)
EXTENDS Integers, Sequences, FiniteSets, TLC

VARIABLES
    world,          \* simulationManager.js:5   0 = undefined/null, k = the k-th World
    initialized,    \* simulationManager.js:6
    isPaused,       \* simulationManager.js:7
    rigidBodies,    \* simulationManager.js:9   Map id -> {rigidBody, collider, length}
    nextBodyId,     \* simulationManager.js:11
    worldCount,     \* number of RAPIER.World objects constructed so far
    engine,         \* the state of every constructed World
    call,           \* the last call of an exported function and its outcome
    issued,         \* ids returned by createBacterium since the last teardown
    events,         \* worlds and bodies created, growth passes made and
                    \* engine calls that threw, so far
    born,           \* id -> the length its entry was created with
    ticks,          \* updateSimulation calls that passed the guard: how many
                    \* were made and how many of them returned normally
    bacteria,       \* scene.js:7    the meshes, in array order
    simulationInitialized,  \* scene.js:8
    physicsBacteria,        \* scene.js:9    the ids of the objects pushed
    animationFrameId,       \* scene.js:10   0 = undefined/null
    defaultParams,  \* scene.js:14
    requested,      \* the animation frames requested from the host and
                    \* neither run nor cancelled yet
    awaiting,       \* initScene calls suspended at line 68: how many wait
                    \* for initSimulation, how many for their own resumption
    pc,             \* where the running animate() call stands, or "idle"
    frame,          \* the steps the running or last animate() call completed
    available,      \* bacteriaPool.js:6   the array, in index order
    active,         \* bacteriaPool.js:7
    maxSize,        \* bacteriaPool.js:5
    released,       \* the objects released and not taken out of the pool
                    \* since, in the order of their last release
    poolCall        \* the last call of a method of the pool and its outcome

\* the history of growth
growthVars == <<born, ticks>>

\* the module state of scene.js, the host's frame requests and the stacks
sceneVars == <<bacteria, simulationInitialized, physicsBacteria,
               animationFrameId, defaultParams, requested, awaiting, pc, frame>>

\* the fields of the BacteriaPool and the history of its calls
poolVars == <<available, active, maxSize, released, poolCall>>

vars == <<world, initialized, isPaused, rigidBodies, nextBodyId,
          worldCount, engine, call, issued, events, growthVars, sceneVars,
          poolVars>>

(***************************************************************************)
(* Bounds of the model                                                     *)
(***************************************************************************)
\* Worlds constructed + bodies created + growth passes + engine calls that
\* throw, in one behaviour.  The other calls (pause, teardown, boundary
\* handling, calls that return early) are not limited.
MaxEvents == 3

\* In a behaviour of GrowthSpec: bacteria spawned; growth passes made +
\* engine calls that throw.
MaxGrowthBacteria == 3
MaxGrowthEvents == 4

\* In a behaviour of SceneSpec: initScene calls + animation frames run by
\* the host + engine calls that throw.
MaxSceneEvents == 3

\* In a behaviour of PoolSpec: the objects createFn can return or the
\* caller can pass to release; the largest maxSize a pool is constructed
\* with besides the default.
MaxPoolObjects == 3
MaxPoolSize == 2

(***************************************************************************)
(* Inputs                                                                  *)
(***************************************************************************)
\* chamber sizes passed to handleBoundaries / handleBoundaries2
Chambers == { [width |-> 100, height |-> 60], [width |-> 5, height |-> 5] }

\* body centres.  In the 100 x 60 chamber: one inside, two on the boundary,
\* one left of it and one below it; in the 5 x 5 chamber the two boundary
\* points lie above it and right of it.
Positions == { <<5, 5>>, <<0, 60>>, <<100, 0>>, <<-1, 0>>, <<0, -1>> }

\* options of createBacterium (radius in thousandths): every position and
\* every radius occurs; a body gets the other positions from world.step()
SpawnOptions == { [position |-> <<5, 5>>,   radius |-> 500],
                  [position |-> <<0, 60>>,  radius |-> 0],
                  [position |-> <<100, 0>>, radius |-> -500],
                  [position |-> <<-1, 0>>,  radius |-> 500],
                  [position |-> <<0, -1>>,  radius |-> 500] }

\* outcomes of normalPolar(0, 1): never the zero vector
NormalSamples == { <<-1, 2>> }

\* parameters of initScene (bacteriaRadius in thousandths)
SceneParameters ==
    { [width |-> 100, height |-> 60, bacteriaRadius |-> 500, numberOfBacteria |-> n] :
          n \in {1, 2} }

\* outcomes of (Math.random() * WIDTH, Math.random() * HEIGHT)
RandomPositions == { <<5, 5>> }

NoWorld == 0
ZeroVel == <<0, 0>>

(***************************************************************************)
(* Helpers                                                                 *)
(***************************************************************************)
RECURSIVE SetToSortedSeq(_)
\* the keys of the Map in iteration (= insertion = increasing id) order
SetToSortedSeq(S) ==
    IF S = {} THEN << >>
    ELSE LET m == CHOOSE x \in S : \A y \in S : x <= y
         IN  <<m>> \o SetToSortedSeq(S \ {m})

\* f with key k removed
Remove(f, k) == [x \in (DOMAIN f) \ {k} |-> f[x]]

\* f with key k set to v
Put(f, k, v) == [x \in (DOMAIN f) \cup {k} |-> IF x = k THEN v ELSE f[x]]

EmptyMap == [x \in {} |-> 0]

(***************************************************************************)
(* The physics engine (RAPIER), as seen through the calls the registry     *)
(* makes                                                                   *)
(***************************************************************************)
\* new RAPIER.World(gravity)
NewWorld == [bodies |-> EmptyMap, colliders |-> EmptyMap,
             nb |-> 0, nc |-> 0, steps |-> 0, freed |-> FALSE]

\* is body handle h live in world w
BodyLive(eng, w, h) ==
    /\ w \in DOMAIN eng
    /\ ~eng[w].freed
    /\ h \in DOMAIN eng[w].bodies

\* is collider handle c live in world w
ColliderLive(eng, w, c) ==
    /\ w \in DOMAIN eng
    /\ ~eng[w].freed
    /\ c \in DOMAIN eng[w].colliders

\* world.createRigidBody(bodyDesc): the new body gets the next handle
EngCreateRigidBody(eng, w, pos) ==
    [eng EXCEPT ![w].bodies = Put(@, eng[w].nb, [pos |-> pos, linvel |-> ZeroVel]),
                ![w].nb = @ + 1]

\* world.createCollider(colliderDesc, rigidBody)
EngCreateCollider(eng, w, body, halfHeight) ==
    [eng EXCEPT ![w].colliders = Put(@, eng[w].nc, [parent |-> body, halfHeight |-> halfHeight]),
                ![w].nc = @ + 1]

\* world.removeCollider(collider): by handle number, in the world it is called on
EngRemoveCollider(eng, w, c) ==
    IF c \in DOMAIN eng[w].colliders
    THEN [eng EXCEPT ![w].colliders = Remove(@, c)]
    ELSE eng

\* world.removeRigidBody(body): removes the body and the colliders attached to it
EngRemoveRigidBody(eng, w, h) ==
    IF h \in DOMAIN eng[w].bodies
    THEN [eng EXCEPT ![w].bodies = Remove(@, h),
                     ![w].colliders =
                         [c \in {d \in DOMAIN @ : @[d].parent # h} |-> @[c]]]
    ELSE eng

\* world.step(): one more step; the solver leaves the bodies in `moved` at
\* the position it gives, the others where they were
EngStep(eng, w, moved) ==
    [eng EXCEPT ![w].steps = @ + 1,
                ![w].bodies = [h \in DOMAIN @ |->
                                 IF h \in DOMAIN moved
                                 THEN [@[h] EXCEPT !.pos = moved[h]]
                                 ELSE @[h]]]

\* world.free()
EngFree(eng, w) ==
    [eng EXCEPT ![w] = [NewWorld EXCEPT !.freed = TRUE, !.nb = eng[w].nb]]

(***************************************************************************)
(* The module state of simulationManager.js as one record, so that an      *)
(* exported function is an operator from the state before the call to the  *)
(* state after it and the value it hands to its caller                     *)
(***************************************************************************)
State == [world |-> world, initialized |-> initialized, isPaused |-> isPaused,
          rigidBodies |-> rigidBodies, nextBodyId |-> nextBodyId,
          worldCount |-> worldCount, engine |-> engine]

\* outcome of a call: ret is "ok" (returned undefined), "true", "false",
\* "null", "id" (returned the bacterium with id `id`) or "throw"
Outcome(st, ret, id) == [st |-> st, ret |-> ret, id |-> id, errors |-> 0]

\* the same, for a call that caught and logged `n` engine exceptions
OutcomeLogged(st, ret, n) == [st |-> st, ret |-> ret, id |-> -1, errors |-> n]

NoId == -1

(***************************************************************************)
(* initSimulation                                                          *)
(***************************************************************************)
\* an initSimulation that raises the flag before it knows the outcome
initSimulationFlagFirst(st, ok) ==
    IF ok
    THEN LET k == st.worldCount + 1
         IN  Outcome([st EXCEPT !.world = k,
                                !.worldCount = k,
                                !.engine = Put(@, k, NewWorld),
                                !.initialized = TRUE],
                     "true", NoId)
    ELSE OutcomeLogged([st EXCEPT !.initialized = TRUE], "false", 1)

\* ok = RAPIER.init() resolves and the World constructor returns.  The
\* function touches no state before its await, so the call takes effect
\* in one step, when it resumes.
initSimulation(st, ok) ==
    IF ok
    THEN LET k == st.worldCount + 1
         IN  Outcome([st EXCEPT !.world = k,
                                !.worldCount = k,
                                !.engine = Put(@, k, NewWorld),
                                !.initialized = TRUE],
                     "true", NoId)
    ELSE OutcomeLogged(st, "false", 1)

(***************************************************************************)
(* destroySimulation                                                       *)
(***************************************************************************)
\* a destroySimulation that lacks its early return
DestroyGuardMissing(init, w) == FALSE

\* the early-return test of destroySimulation
DestroyGuard(init, w) == ~init \/ w = NoWorld

RECURSIVE RemoveBodiesUntilThrow(_, _, _, _, _)
\* a loop that is left by the first removal that throws
RemoveBodiesUntilThrow(eng, w, rb, ids, failBody) ==
    IF ids = << >> \/ Head(ids) \in failBody THEN eng
    ELSE RemoveBodiesUntilThrow(EngRemoveRigidBody(eng, w, rb[Head(ids)].body),
                                w, rb, Tail(ids), failBody)

RECURSIVE RemoveBodies(_, _, _, _, _)
\* the loop over rigidBodies.entries(): world.removeRigidBody for every
\* entry; a throw (ids in failBody) is caught for that entry
RemoveBodies(eng, w, rb, ids, failBody) ==
    IF ids = << >> THEN eng
    ELSE LET id == Head(ids)
             e1 == IF id \in failBody THEN eng
                   ELSE EngRemoveRigidBody(eng, w, rb[id].body)
         IN  RemoveBodies(e1, w, rb, Tail(ids), failBody)

\* world.forEachCollider(c => world.removeCollider(c)); a throw (handles in
\* failColl) is caught for that collider
RemoveAllColliders(eng, w, failColl) ==
    [eng EXCEPT ![w].colliders = [c \in (DOMAIN @) \cap failColl |-> @[c]]]

\* f.forEach: world.forEachCollider itself throws; f.coll, f.body: the
\* removals that throw; f.free: world.free() throws
destroySimulation(st, f) ==
    IF DestroyGuard(st.initialized, st.world)
    THEN Outcome(st, "ok", NoId)
    ELSE LET s1 == [st EXCEPT !.isPaused = TRUE]
             w  == st.world
         IN  IF w = NoWorld \/ f.forEach
             THEN OutcomeLogged(s1, "ok", 1)       \* outer catch
             ELSE LET e1 == RemoveAllColliders(st.engine, w, f.coll)
                      e2 == RemoveBodies(e1, w, st.rigidBodies,
                                SetToSortedSeq(DOMAIN st.rigidBodies), f.body)
                      s2 == [s1 EXCEPT !.engine = e2, !.rigidBodies = EmptyMap]
                      n  == Cardinality(f.coll \cap DOMAIN st.engine[w].colliders)
                            + Cardinality(f.body \cap DOMAIN st.rigidBodies)
                  IN  IF f.free
                      THEN OutcomeLogged(s2, "ok", n + 1)   \* outer catch
                      ELSE OutcomeLogged([s2 EXCEPT !.engine = EngFree(e2, w),
                                                    !.world = NoWorld,
                                                    !.initialized = FALSE,
                                                    !.isPaused = TRUE,
                                                    !.nextBodyId = 0],
                                         "ok", n)

(***************************************************************************)
(* createBacterium                                                         *)
(***************************************************************************)
\* a createBacterium that lacks its early return
CreateGuardMissing(init, w) == FALSE

\* the early-return test of createBacterium
CreateGuard(init, w) == ~init \/ w = NoWorld

\* a half height that is the radius itself
HalfHeightIsRadius(radius) == radius

\* const halfHeight = radius * 2
HalfHeight(radius) == radius * 2

\* a counter that is read but not incremented
NextBodyIdStuck(n) == n

\* nextBodyId++ : the value of the counter after an id was taken
NextBodyIdAfter(n) == n + 1

\* fault names the engine call that throws, "none" if none does
createBacterium(st, options, sample, fault) ==
    IF CreateGuard(st.initialized, st.world)
    THEN Outcome(st, "null", NoId)
    ELSE IF st.world = NoWorld \/ fault = "createRigidBody"
    THEN Outcome(st, "throw", NoId)
    ELSE LET w    == st.world
             body == st.engine[w].nb
             position == options.position
             radius == options.radius
             e1   == EngCreateRigidBody(st.engine, w, position)
             halfHeight == HalfHeight(radius)
         IN  IF fault = "createCollider"
             THEN Outcome([st EXCEPT !.engine = e1], "throw", NoId)
             ELSE LET coll == e1[w].nc
                      e2   == EngCreateCollider(e1, w, body, halfHeight)
                  IN  IF fault = "setLinvel"
                      THEN Outcome([st EXCEPT !.engine = e2], "throw", NoId)
                      ELSE LET e3 == [e2 EXCEPT ![w].bodies[body].linvel =
                                         <<sample[1] * 5, sample[2] * 5>>]
                               bacteriumId == st.nextBodyId
                           IN  Outcome([st EXCEPT
                                   !.engine = e3,
                                   !.nextBodyId = NextBodyIdAfter(bacteriumId),
                                   !.rigidBodies = Put(@, bacteriumId,
                                       [w |-> w, body |-> body, collider |-> coll,
                                        length |-> halfHeight])],
                                 "id", bacteriumId)

(***************************************************************************)
(* updateSimulation and growBacteria                                       *)
(***************************************************************************)
\* an updateSimulation that does not test the paused flag
UpdateGuardIgnoringPause(init, w, paused) == ~init \/ w = NoWorld

\* the early-return test of updateSimulation
UpdateGuard(init, w, paused) == ~init \/ w = NoWorld \/ paused

\* a growth step that leaves the length as it is
GrowLengthNone(length) == length

\* bodyData.length * 1.001, rounded to the nearest unit
GrowLength(length) == (length * 1001 + 500) \div 1000

NoFault == <<"none", NoId>>

RECURSIVE GrowLoop(_, _, _)
\* the loop of growBacteria over the entries `ids`; fault = <<call, id>> is
\* the engine call that throws.  The result is the state reached and
\* whether the loop was left by an exception.
GrowLoop(st, ids, fault) ==
    IF ids = << >> THEN [st |-> st, thrown |-> FALSE]
    ELSE LET id == Head(ids)
             bodyData == st.rigidBodies[id]
             newLength == GrowLength(bodyData.length)
         IN  IF fault = <<"setHalfHeight", id>>
                \/ ~ColliderLive(st.engine, bodyData.w, bodyData.collider)
             THEN [st |-> st, thrown |-> TRUE]
             ELSE LET s1 == [st EXCEPT
                        !.engine[bodyData.w].colliders[bodyData.collider].halfHeight
                            = newLength,
                        !.rigidBodies[id].length = newLength]
                  IN  IF fault = <<"setLinvel", id>>
                         \/ ~BodyLive(st.engine, bodyData.w, bodyData.body)
                      THEN [st |-> s1, thrown |-> TRUE]
                      ELSE GrowLoop(
                              [s1 EXCEPT !.engine[bodyData.w].bodies[bodyData.body].linvel
                                             = ZeroVel],
                              Tail(ids), fault)

growBacteria(st, fault) ==
    GrowLoop(st, SetToSortedSeq(DOMAIN st.rigidBodies), fault)

\* an updateSimulation that advances the world before it grows the bacteria
updateSimulationStepFirst(st, fault, moved) ==
    IF UpdateGuard(st.initialized, st.world, st.isPaused)
    THEN Outcome(st, "ok", NoId)
    ELSE IF st.world = NoWorld \/ fault = <<"step", NoId>>
    THEN Outcome(st, "throw", NoId)
    ELSE LET g == growBacteria([st EXCEPT !.engine = EngStep(@, st.world, moved)],
                               fault)
         IN  Outcome(g.st, IF g.thrown THEN "throw" ELSE "ok", NoId)

\* moved: the bodies world.step() displaces, with their new positions
updateSimulation(st, fault, moved) ==
    IF UpdateGuard(st.initialized, st.world, st.isPaused)
    THEN Outcome(st, "ok", NoId)
    ELSE LET g == growBacteria(st, fault)
         IN  IF g.thrown \/ st.world = NoWorld \/ fault = <<"step", NoId>>
             THEN Outcome(g.st, "throw", NoId)
             ELSE Outcome([g.st EXCEPT !.engine = EngStep(@, st.world, moved)],
                          "ok", NoId)

(***************************************************************************)
(* handleBoundaries: delete the bacteria that left the chamber             *)
(***************************************************************************)
\* the early-return test of handleBoundaries
BoundariesGuard(init, w) == ~init \/ w = NoWorld

\* a bounds test that takes the far edges of the chamber for outside
OutOfBoundsInclusive(position, width, height) ==
    \/ position[1] < 0
    \/ position[1] >= width
    \/ position[2] < 0
    \/ position[2] >= height

\* position.x < 0 || position.x > width || position.y < 0 || position.y > height
OutOfBounds(position, width, height) ==
    \/ position[1] < 0
    \/ position[1] > width
    \/ position[2] < 0
    \/ position[2] > height

RECURSIVE BoundariesLoop(_, _, _, _, _, _)
\* the loop over Array.from(rigidBodies.entries()); failColl and failBody
\* are the ids for which removeCollider, removeRigidBody throw; n counts
\* the exceptions caught and logged so far
BoundariesLoop(st, ids, options, failColl, failBody, n) ==
    IF ids = << >> THEN [st |-> st, thrown |-> FALSE, errors |-> n]
    ELSE LET id == Head(ids)
             bodyData == st.rigidBodies[id]
         IN  IF ~BodyLive(st.engine, bodyData.w, bodyData.body)
             THEN [st |-> st, thrown |-> TRUE, errors |-> n]  \* translation() throws
             ELSE LET position == st.engine[bodyData.w].bodies[bodyData.body].pos
                      e1 == EngRemoveCollider(st.engine, st.world, bodyData.collider)
                      e2 == EngRemoveRigidBody(e1, st.world, bodyData.body)
                  IN  IF ~OutOfBounds(position, options.width, options.height)
                      THEN BoundariesLoop(st, Tail(ids), options, failColl, failBody, n)
                      ELSE IF id \in failColl
                      THEN BoundariesLoop(st, Tail(ids), options, failColl, failBody, n + 1)
                      ELSE IF id \in failBody
                      THEN BoundariesLoop([st EXCEPT !.engine = e1],
                                          Tail(ids), options, failColl, failBody, n + 1)
                      ELSE BoundariesLoop([st EXCEPT !.engine = e2,
                                                     !.rigidBodies = Remove(@, id)],
                                          Tail(ids), options, failColl, failBody, n)

handleBoundaries(st, options, failColl, failBody) ==
    IF BoundariesGuard(st.initialized, st.world)
    THEN Outcome(st, "ok", NoId)
    ELSE IF st.world = NoWorld
    THEN Outcome(st, "throw", NoId)
    ELSE LET r == BoundariesLoop(st, SetToSortedSeq(DOMAIN st.rigidBodies),
                                 options, failColl, failBody, 0)
         IN  OutcomeLogged(r.st, IF r.thrown THEN "throw" ELSE "ok", r.errors)

(***************************************************************************)
(* handleBoundaries2: wrap the bacteria around the chamber                 *)
(***************************************************************************)
\* the early-return test of handleBoundaries2
Boundaries2Guard(init, w) == ~init \/ w = NoWorld

\* a wrap that forgets the far edge
WrapLowOnly(v, max) == IF v < 0 THEN max ELSE v

\* if (v < 0) v = max; else if (v > max) v = 0
Wrap(v, max) == IF v < 0 THEN max ELSE IF v > max THEN 0 ELSE v

RECURSIVE Boundaries2Loop(_, _, _, _)
\* fault = <<"setTranslation", id>>: the call throws for that entry
Boundaries2Loop(st, ids, options, fault) ==
    IF ids = << >> THEN [st |-> st, thrown |-> FALSE]
    ELSE LET id == Head(ids)
             bodyData == st.rigidBodies[id]
         IN  IF ~BodyLive(st.engine, bodyData.w, bodyData.body)
                \/ fault = <<"setTranslation", id>>
             THEN [st |-> st, thrown |-> TRUE]
             ELSE LET position == st.engine[bodyData.w].bodies[bodyData.body].pos
                      newX == Wrap(position[1], options.width)
                      newY == Wrap(position[2], options.height)
                  IN  Boundaries2Loop(
                          [st EXCEPT !.engine[bodyData.w].bodies[bodyData.body].pos
                                         = <<newX, newY>>],
                          Tail(ids), options, fault)

handleBoundaries2(st, options, fault) ==
    IF Boundaries2Guard(st.initialized, st.world)
    THEN Outcome(st, "ok", NoId)
    ELSE LET r == Boundaries2Loop(st, SetToSortedSeq(DOMAIN st.rigidBodies),
                                  options, fault)
         IN  Outcome(r.st, IF r.thrown THEN "throw" ELSE "ok", NoId)

(***************************************************************************)
(* pause, getRigidBodies                                                   *)
(***************************************************************************)
\* a pause that sets the flag instead of flipping it
pauseOnly(st) == Outcome([st EXCEPT !.isPaused = TRUE], "ok", NoId)

\* isPaused = !isPaused
pause(st) == Outcome([st EXCEPT !.isPaused = ~@], "ok", NoId)

\* the Map itself: id -> length is what a caller reads from it
getRigidBodies(st) == st.rigidBodies

(***************************************************************************)
(* The state machine: one action per exported function                     *)
(***************************************************************************)
Booleans == {TRUE, FALSE}

NoCall == [op |-> "none", ret |-> "ok", id |-> NoId, errors |-> 0,
           width |-> 0, height |-> 0, radius |-> 0]

\* let defaultParams = {}
NoParams == [width |-> 0, height |-> 0, bacteriaRadius |-> 0, numberOfBacteria |-> 0]

\* constructor(createFn, resetFn, maxSize = 100)
DefaultMaxSize == 100

NoObject == 0

NoPoolCall == [op |-> "none", ret |-> "ok", obj |-> NoObject,
               created |-> 0, reset |-> NoObject]

Init ==
    /\ world = NoWorld
    /\ initialized = FALSE
    /\ isPaused = TRUE
    /\ rigidBodies = EmptyMap
    /\ nextBodyId = 0
    /\ worldCount = 0
    /\ engine = EmptyMap
    /\ call = NoCall
    /\ issued = {}
    /\ events = 0
    /\ born = EmptyMap
    /\ ticks = [made |-> 0, returned |-> 0]
    /\ bacteria = << >>
    /\ simulationInitialized = FALSE
    /\ physicsBacteria = << >>
    /\ animationFrameId = 0
    /\ defaultParams = NoParams
    /\ requested = {}
    /\ awaiting = [init |-> 0, scene |-> 0]
    /\ pc = "idle"
    /\ frame = << >>
    /\ available = << >>
    /\ active = {}
    /\ maxSize = DefaultMaxSize
    /\ released = << >>
    /\ poolCall = NoPoolCall

\* the module state after a call with outcome r
Becomes(r) ==
    /\ world' = r.st.world
    /\ initialized' = r.st.initialized
    /\ isPaused' = r.st.isPaused
    /\ rigidBodies' = r.st.rigidBodies
    /\ nextBodyId' = r.st.nextBodyId
    /\ worldCount' = r.st.worldCount
    /\ engine' = r.st.engine

Called(op, r, width, height, radius) ==
    call' = [op |-> op, ret |-> r.ret, id |-> r.id, errors |-> r.errors,
             width |-> width, height |-> height, radius |-> radius]

\* the call makes n more of the limited events
Costs(n) ==
    /\ events + n <= MaxEvents
    /\ events' = events + n
    /\ UNCHANGED <<growthVars, sceneVars, poolVars>>

InitSimulation ==
    \E ok \in Booleans :
        /\ Costs(1)
        /\ LET r == initSimulation(State, ok)
           IN  Becomes(r) /\ Called("initSimulation", r, 0, 0, 0)
        /\ UNCHANGED issued

DestroySimulation ==
    \E forEach \in Booleans, free \in Booleans,
       body \in SUBSET (DOMAIN rigidBodies),
       coll \in SUBSET (IF world = NoWorld THEN {} ELSE DOMAIN engine[world].colliders) :
        /\ forEach => (~free /\ body = {} /\ coll = {})
        /\ DestroyGuard(initialized, world) => (~forEach /\ ~free /\ body = {} /\ coll = {})
        /\ Costs((IF forEach THEN 1 ELSE 0) + (IF free THEN 1 ELSE 0)
                 + Cardinality(body) + Cardinality(coll))
        /\ LET f == [forEach |-> forEach, coll |-> coll, body |-> body, free |-> free]
               r == destroySimulation(State, f)
           IN  Becomes(r) /\ Called("destroySimulation", r, 0, 0, 0)
        /\ issued' = IF DestroyGuard(initialized, world) THEN issued ELSE {}

CreateFaults == {"none", "createRigidBody", "createCollider", "setLinvel"}

CreateBacterium ==
    \E options \in SpawnOptions, sample \in NormalSamples, fault \in CreateFaults :
        /\ CreateGuard(initialized, world) => fault = "none"
        /\ Costs(IF CreateGuard(initialized, world) THEN 0 ELSE 1)
        /\ LET r == createBacterium(State, options, sample, fault)
           IN  /\ Becomes(r)
               /\ Called("createBacterium", r, 0, 0, options.radius)
               /\ issued' = IF r.ret = "id" THEN issued \cup {r.id} ELSE issued

UpdateFaults ==
    {<<"step", NoId>>}
    \cup ({"setHalfHeight", "setLinvel"} \X (DOMAIN rigidBodies))

\* what a step may do to the bodies of world w: nothing, or displace one
Displacements(w) ==
    {EmptyMap} \cup
    { [x \in {h} |-> p] : h \in (IF w = NoWorld THEN {} ELSE DOMAIN engine[w].bodies),
                          p \in Positions }

UpdateSimulation ==
    \E fault \in {NoFault} \cup UpdateFaults, moved \in Displacements(world) :
        /\ fault # NoFault => moved = EmptyMap
        /\ UpdateGuard(initialized, world, isPaused)
              => (fault = NoFault /\ moved = EmptyMap)
        /\ Costs(IF UpdateGuard(initialized, world, isPaused) THEN 0 ELSE 1)
        /\ LET r == updateSimulation(State, fault, moved)
           IN  Becomes(r) /\ Called("updateSimulation", r, 0, 0, 0)
        /\ UNCHANGED issued

HandleBoundaries ==
    \E options \in Chambers,
       failColl \in SUBSET (DOMAIN rigidBodies) :
      \E failBody \in SUBSET ((DOMAIN rigidBodies) \ failColl) :
        /\ BoundariesGuard(initialized, world) => (failColl = {} /\ failBody = {})
        /\ Costs(Cardinality(failColl) + Cardinality(failBody))
        /\ LET r == handleBoundaries(State, options, failColl, failBody)
           IN  /\ r.errors = Cardinality(failColl) + Cardinality(failBody)
               /\ Becomes(r)
               /\ Called("handleBoundaries", r, options.width, options.height, 0)
        /\ UNCHANGED issued

HandleBoundaries2 ==
    \E options \in Chambers,
       fault \in {NoFault} \cup ({"setTranslation"} \X (DOMAIN rigidBodies)) :
        /\ Boundaries2Guard(initialized, world) => fault = NoFault
        /\ Costs(IF fault = NoFault THEN 0 ELSE 1)
        /\ LET r == handleBoundaries2(State, options, fault)
           IN  Becomes(r)
               /\ Called("handleBoundaries2", r, options.width, options.height, 0)
        /\ UNCHANGED issued

Pause ==
    /\ LET r == pause(State)
       IN  Becomes(r) /\ Called("pause", r, 0, 0, 0)
    /\ UNCHANGED <<issued, events, growthVars, sceneVars, poolVars>>

Next ==
    \/ InitSimulation
    \/ DestroySimulation
    \/ CreateBacterium
    \/ UpdateSimulation
    \/ HandleBoundaries
    \/ HandleBoundaries2
    \/ Pause

Spec == Init /\ [][Next]_vars

(***************************************************************************)
(* Growth: the registry driven as in the growth scenario.  One world; the  *)
(* bacteria are spawned inside the chamber with a positive radius before   *)
(* the first tick; then updateSimulation is called, with the flag set or   *)
(* clear; nothing is evicted.  Any engine call of a tick may throw.        *)
(***************************************************************************)
\* options of createBacterium in the growth scenario
GrowthOptions == { [position |-> <<5, 5>>, radius |-> 500],
                   [position |-> <<5, 5>>, radius |-> 1000] }

\* the call makes n more of the limited events of the growth scenario
GrowthCosts(n) ==
    /\ events + n <= MaxGrowthEvents
    /\ events' = events + n
    /\ UNCHANGED <<sceneVars, poolVars>>

GrowthInitSimulation ==
    \E ok \in Booleans :
        /\ world = NoWorld
        /\ LET r == initSimulation(State, ok)
           IN  Becomes(r) /\ Called("initSimulation", r, 0, 0, 0)
        /\ UNCHANGED <<issued, events, growthVars, sceneVars, poolVars>>

GrowthCreateBacterium ==
    \E options \in GrowthOptions, sample \in NormalSamples :
        /\ ~CreateGuard(initialized, world)
        /\ ticks.made = 0
        /\ nextBodyId < MaxGrowthBacteria
        /\ LET r == createBacterium(State, options, sample, "none")
           IN  /\ Becomes(r)
               /\ Called("createBacterium", r, 0, 0, options.radius)
               /\ issued' = issued \cup {r.id}
               /\ born' = Put(born, r.id, getRigidBodies(r.st)[r.id].length)
        /\ UNCHANGED <<events, ticks, sceneVars, poolVars>>

GrowthPause ==
    /\ LET r == pause(State)
       IN  Becomes(r) /\ Called("pause", r, 0, 0, 0)
    /\ UNCHANGED <<issued, events, growthVars, sceneVars, poolVars>>

GrowthUpdateSimulation ==
    \E fault \in {NoFault} \cup UpdateFaults :
        /\ UpdateGuard(initialized, world, isPaused) => fault = NoFault
        /\ GrowthCosts((IF UpdateGuard(initialized, world, isPaused) THEN 0 ELSE 1)
                       + (IF fault = NoFault THEN 0 ELSE 1))
        /\ LET r == updateSimulation(State, fault, EmptyMap)
           IN  /\ Becomes(r)
               /\ Called("updateSimulation", r, 0, 0, 0)
               /\ ticks' = IF UpdateGuard(initialized, world, isPaused)
                           THEN ticks
                           ELSE [made |-> ticks.made + 1,
                                 returned |-> ticks.returned
                                     + (IF r.ret = "ok" THEN 1 ELSE 0)]
        /\ UNCHANGED <<issued, born>>

GrowthNext ==
    \/ GrowthInitSimulation
    \/ GrowthCreateBacterium
    \/ GrowthPause
    \/ GrowthUpdateSimulation

GrowthSpec == Init /\ [][GrowthNext]_vars

(***************************************************************************)
(* scene.js: initScene, deleteAll, createBacteria, animate and             *)
(* updateBacteriumPositions, driving the registry                          *)
(***************************************************************************)
\* the call makes n more of the limited events of the scene
SceneCosts(n) ==
    /\ events + n <= MaxSceneEvents
    /\ events' = events + n
    /\ UNCHANGED <<growthVars, poolVars>>

\* the sets of calls on the handles S that may throw when `spent` events
\* of the scene are spoken for
MayThrow(S, spent) ==
    IF spent >= MaxSceneEvents THEN { {} }
    ELSE { T \in SUBSET S : Cardinality(T) <= MaxSceneEvents - spent }

\* the capsule createBacteria makes: CapsuleGeometry(radius, 4 * radius) at
\* the random position, userData.id not set yet
NewMesh(params, position) ==
    [id |-> NoId, length |-> 4 * params.bacteriaRadius, position |-> position]

RECURSIVE CreateBacteriaLoop(_, _, _, _, _, _)
\* the loop of createBacteria from index i on.  acc holds the registry
\* state, the two arrays, the outcome of the last createBacterium call, the
\* ids obtained and whether a call threw; positions[i] is the i-th random
\* position; fault = <<engine call, i>> makes the i-th createBacterium throw
CreateBacteriaLoop(acc, i, params, positions, sample, fault) ==
    IF i >= params.numberOfBacteria \/ acc.thrown THEN acc
    ELSE LET capsule == NewMesh(params, positions[i])
             physicsBacterium ==
                 createBacterium(acc.st,
                     [position |-> positions[i], radius |-> params.bacteriaRadius],
                     sample, IF fault[2] = i THEN fault[1] ELSE "none")
             made == physicsBacterium.ret = "id"
         IN  CreateBacteriaLoop(
                 [st |-> physicsBacterium.st,
                  bacteria |-> Append(acc.bacteria,
                                  IF made
                                  THEN [capsule EXCEPT !.id = physicsBacterium.id]
                                  ELSE capsule),
                  physicsBacteria |-> IF made
                                      THEN Append(acc.physicsBacteria, physicsBacterium.id)
                                      ELSE acc.physicsBacteria,
                  last |-> physicsBacterium,
                  ids |-> IF made THEN acc.ids \cup {physicsBacterium.id} ELSE acc.ids,
                  thrown |-> physicsBacterium.ret = "throw"],
                 i + 1, params, positions, sample, fault)

\* createBacteria(), called with simulationInitialized just set
createBacteria(st, meshes, physics, params, positions, sample, fault) ==
    CreateBacteriaLoop(
        [st |-> st, bacteria |-> meshes, physicsBacteria |-> physics,
         last |-> Outcome(st, "ok", NoId), ids |-> {}, thrown |-> FALSE],
        0, params, positions, sample, fault)

\* requestAnimationFrame: a handle that no pending request has
NewFrameId(pending) ==
    CHOOSE k \in 1..(Cardinality(pending) + 1) :
        /\ k \notin pending
        /\ \A j \in 1..(k - 1) : j \in pending

\* an updateBacteriumPositions that steps the physics after it has updated
\* the meshes
AfterStepUpdateLast(step) ==
    CASE step = "handleBoundaries" -> "getRigidBodies"
      [] step = "getRigidBodies"   -> "removeMeshes"
      [] step = "removeMeshes"     -> "updateMeshes"
      [] step = "updateMeshes"     -> "updateSimulation"
      [] step = "updateSimulation" -> "idle"

\* the statement of updateBacteriumPositions that follows `step`; "idle"
\* when the function returns (renderer.render follows and animate returns)
AfterStep(step) ==
    CASE step = "handleBoundaries" -> "updateSimulation"
      [] step = "updateSimulation" -> "getRigidBodies"
      [] step = "getRigidBodies"   -> "removeMeshes"
      [] step = "removeMeshes"     -> "updateMeshes"
      [] step = "updateMeshes"     -> "idle"

\* the first statement of updateBacteriumPositions after its guard
FirstStep == "handleBoundaries"

\* the running frame completes `step`, or an exception leaves animate()
Advance(step, thrown) ==
    /\ pc' = IF thrown THEN "idle" ELSE AfterStep(step)
    /\ frame' = IF thrown THEN frame ELSE Append(frame, step)

\* animate(): request the next frame, then updateBacteriumPositions, which
\* returns at once while simulationInitialized is false
Animate(pending, flag) ==
    /\ animationFrameId' = NewFrameId(pending)
    /\ requested' = pending \cup {NewFrameId(pending)}
    /\ frame' = << >>
    /\ pc' = IF flag THEN FirstStep ELSE "idle"

\* initScene up to its await.  With simulationInitialized set it first runs
\* deleteAll: the meshes are dropped, the frame whose handle is stored is
\* cancelled, destroySimulation is called (f: what throws in it) and the
\* flag is cleared.
InitScene ==
    \E parameters \in SceneParameters,
       forEach \in Booleans, free \in Booleans,
       body \in MayThrow(IF simulationInitialized THEN DOMAIN rigidBodies ELSE {},
                         events + 1),
       coll \in MayThrow(IF simulationInitialized /\ world # NoWorld
                         THEN DOMAIN engine[world].colliders ELSE {},
                         events + 1) :
        /\ pc = "idle"
        /\ forEach => (~free /\ body = {} /\ coll = {})
        /\ (~simulationInitialized \/ DestroyGuard(initialized, world))
              => (~forEach /\ ~free /\ body = {} /\ coll = {})
        /\ SceneCosts(1 + (IF forEach THEN 1 ELSE 0) + (IF free THEN 1 ELSE 0)
                      + Cardinality(body) + Cardinality(coll))
        /\ IF simulationInitialized
           THEN LET f == [forEach |-> forEach, coll |-> coll,
                          body |-> body, free |-> free]
                    r == destroySimulation(State, f)
                IN  /\ bacteria' = << >>
                    /\ requested' = requested \ {animationFrameId}
                    /\ animationFrameId' = 0
                    /\ Becomes(r) /\ Called("destroySimulation", r, 0, 0, 0)
                    /\ issued' = IF DestroyGuard(initialized, world)
                                 THEN issued ELSE {}
                    /\ physicsBacteria' = << >>
                    /\ simulationInitialized' = FALSE
           ELSE UNCHANGED <<world, initialized, isPaused, rigidBodies, nextBodyId,
                            worldCount, engine, call, issued, bacteria, requested,
                            animationFrameId, physicsBacteria, simulationInitialized>>
        /\ defaultParams' = parameters
        /\ awaiting' = [awaiting EXCEPT !.init = @ + 1]
        /\ UNCHANGED <<pc, frame>>

\* the initSimulation call of a suspended initScene settles
InitSimulationSettles ==
    \E ok \in Booleans :
        /\ pc = "idle"
        /\ awaiting.init > 0
        /\ LET r == initSimulation(State, ok)
           IN  Becomes(r) /\ Called("initSimulation", r, 0, 0, 0)
        /\ awaiting' = [init |-> awaiting.init - 1, scene |-> awaiting.scene + 1]
        /\ UNCHANGED <<issued, events, growthVars, poolVars, bacteria, simulationInitialized,
                       physicsBacteria, animationFrameId, defaultParams,
                       requested, pc, frame>>

\* initScene after its await: the flag, createBacteria (an exception of it
\* is caught) and the first animate()
InitSceneResumes ==
    \E positions \in [0..(defaultParams.numberOfBacteria - 1) -> RandomPositions],
       sample \in NormalSamples,
       fault \in {NoFault} \cup ((CreateFaults \ {"none"})
                                   \X (0..(defaultParams.numberOfBacteria - 1))) :
        /\ pc = "idle"
        /\ awaiting.scene > 0
        /\ CreateGuard(initialized, world) => fault = NoFault
        /\ SceneCosts(IF fault = NoFault THEN 0 ELSE 1)
        /\ simulationInitialized' = TRUE
        /\ LET c == createBacteria(State, bacteria, physicsBacteria,
                                   defaultParams, positions, sample, fault)
           IN  /\ Becomes(c)
               /\ IF defaultParams.numberOfBacteria > 0
                  THEN Called("createBacterium", c.last, 0, 0,
                              defaultParams.bacteriaRadius)
                  ELSE UNCHANGED call
               /\ issued' = issued \cup c.ids
               /\ bacteria' = c.bacteria
               /\ physicsBacteria' = c.physicsBacteria
        /\ Animate(requested, TRUE)
        /\ awaiting' = [awaiting EXCEPT !.scene = @ - 1]
        /\ UNCHANGED defaultParams

\* the host runs a requested frame: animate()
AnimationFrame ==
    \E id \in requested :
        /\ pc = "idle"
        /\ SceneCosts(1)
        /\ Animate(requested \ {id}, simulationInitialized)
        /\ UNCHANGED <<world, initialized, isPaused, rigidBodies, nextBodyId,
                       worldCount, engine, call, issued, bacteria,
                       simulationInitialized, physicsBacteria, defaultParams,
                       awaiting>>

\* what the steps of a frame leave alone in scene.js
FrameKeeps ==
    UNCHANGED <<simulationInitialized, physicsBacteria, animationFrameId,
                defaultParams, requested, awaiting>>

\* lines 240-244
SyncHandleBoundaries ==
    \E failColl \in MayThrow(IF pc = "handleBoundaries"
                             THEN DOMAIN rigidBodies ELSE {}, events) :
      \E failBody \in MayThrow(IF pc = "handleBoundaries"
                               THEN (DOMAIN rigidBodies) \ failColl ELSE {}, events) :
        /\ pc = "handleBoundaries"
        /\ BoundariesGuard(initialized, world) => (failColl = {} /\ failBody = {})
        /\ SceneCosts(Cardinality(failColl) + Cardinality(failBody))
        /\ LET r == handleBoundaries(State, defaultParams, failColl, failBody)
           IN  /\ r.errors = Cardinality(failColl) + Cardinality(failBody)
               /\ Becomes(r)
               /\ Called("handleBoundaries", r, defaultParams.width,
                         defaultParams.height, 0)
               /\ Advance("handleBoundaries", r.ret = "throw")
        /\ UNCHANGED <<issued, bacteria>>
        /\ FrameKeeps

\* what a step of the scene's world may do to its bodies: nothing, or
\* carry one out of the chamber
SceneDisplacements(w) ==
    {EmptyMap} \cup
    { [x \in {h} |-> <<-1, 0>>] :
          h \in (IF w = NoWorld THEN {} ELSE DOMAIN engine[w].bodies) }

\* line 247
SyncUpdateSimulation ==
    \E fault \in {NoFault} \cup UpdateFaults, moved \in SceneDisplacements(world) :
        /\ pc = "updateSimulation"
        /\ fault # NoFault => moved = EmptyMap
        /\ UpdateGuard(initialized, world, isPaused)
              => (fault = NoFault /\ moved = EmptyMap)
        /\ SceneCosts(IF fault = NoFault THEN 0 ELSE 1)
        /\ LET r == updateSimulation(State, fault, moved)
           IN  /\ Becomes(r)
               /\ Called("updateSimulation", r, 0, 0, 0)
               /\ Advance("updateSimulation", r.ret = "throw")
        /\ UNCHANGED <<issued, bacteria>>
        /\ FrameKeeps

\* line 248: the Map itself is handed over, not a copy of it
SyncGetRigidBodies ==
    /\ pc = "getRigidBodies"
    /\ Advance("getRigidBodies", FALSE)
    /\ UNCHANGED <<world, initialized, isPaused, rigidBodies, nextBodyId,
                   worldCount, engine, call, issued, events, growthVars, poolVars,
                   bacteria>>
    /\ FrameKeeps

\* the meshes kept by the loop of lines 252-266
RemoveMeshes(meshes, table) ==
    SelectSeq(meshes, LAMBDA mesh : mesh.id \in DOMAIN table)

SyncRemoveMeshes ==
    /\ pc = "removeMeshes"
    /\ bacteria' = RemoveMeshes(bacteria, getRigidBodies(State))
    /\ Advance("removeMeshes", FALSE)
    /\ UNCHANGED <<world, initialized, isPaused, rigidBodies, nextBodyId,
                   worldCount, engine, call, issued, events, growthVars, poolVars>>
    /\ FrameKeeps

RECURSIVE UpdateMeshesLoop(_, _, _, _)
\* the loop of lines 269-296 over the entries `ids`: the first mesh that
\* carries the id gets the entry's size and position; body.translation()
\* throws for a body that is no longer live
UpdateMeshesLoop(meshes, st, ids, params) ==
    IF ids = << >> THEN [bacteria |-> meshes, thrown |-> FALSE]
    ELSE LET id == Head(ids)
             bodyData == st.rigidBodies[id]
             found == {i \in 1..Len(meshes) : meshes[i].id = id}
         IN  IF found = {}
             THEN UpdateMeshesLoop(meshes, st, Tail(ids), params)
             ELSE IF ~BodyLive(st.engine, bodyData.w, bodyData.body)
             THEN [bacteria |-> meshes, thrown |-> TRUE]
             ELSE LET i == CHOOSE k \in found : \A j \in found : k <= j
                      position == st.engine[bodyData.w].bodies[bodyData.body].pos
                      newLength == bodyData.length
                  IN  UpdateMeshesLoop(
                          [meshes EXCEPT ![i].length = 2 * newLength,
                                         ![i].position =
                                             <<position[1] - params.width \div 2,
                                               position[2] - params.height \div 2>>],
                          st, Tail(ids), params)

SyncUpdateMeshes ==
    /\ pc = "updateMeshes"
    /\ LET r == UpdateMeshesLoop(bacteria, State,
                    SetToSortedSeq(DOMAIN getRigidBodies(State)), defaultParams)
       IN  /\ bacteria' = r.bacteria
           /\ Advance("updateMeshes", r.thrown)
    /\ UNCHANGED <<world, initialized, isPaused, rigidBodies, nextBodyId,
                   worldCount, engine, call, issued, events, growthVars, poolVars>>
    /\ FrameKeeps

\* stop()
Stop ==
    /\ pc = "idle"
    /\ LET r == pause(State)
       IN  Becomes(r) /\ Called("pause", r, 0, 0, 0)
    /\ UNCHANGED <<issued, events, growthVars, sceneVars, poolVars>>

SceneNext ==
    \/ InitScene
    \/ InitSimulationSettles
    \/ InitSceneResumes
    \/ AnimationFrame
    \/ SyncHandleBoundaries
    \/ SyncUpdateSimulation
    \/ SyncGetRigidBodies
    \/ SyncRemoveMeshes
    \/ SyncUpdateMeshes
    \/ Stop

SceneSpec == Init /\ [][SceneNext]_vars

(***************************************************************************)
(* BacteriaPool: the fields of the pool as one record, its methods as      *)
(* operators from the pool before the call to the pool after it, the value *)
(* returned and the calls of createFn and resetFn that were made           *)
(***************************************************************************)
Pool == [available |-> available, active |-> active, maxSize |-> maxSize]

\* the objects createFn can return and a caller can pass to release
PoolObjects == 1..MaxPoolObjects

\* the maxSize arguments of the constructor
PoolSizes == 0..MaxPoolSize

\* new BacteriaPool(createFn, resetFn, size)
BacteriaPool(size) == [available |-> << >>, active |-> {}, maxSize |-> size]

\* outcome of a method: ret is "ok" (returned undefined), "obj" (returned
\* obj) or "throw"; created counts the calls of createFn, reset is the
\* object resetFn was called on
PoolOutcome(pool, ret, obj, created, reset) ==
    [pool |-> pool, ret |-> ret, obj |-> obj, created |-> created, reset |-> reset]

\* an acquire that takes the object at the front of the array
acquireOldest(pool, made, createThrows, resetThrows) ==
    IF Len(pool.available) > 0
    THEN LET obj == Head(pool.available)
             p1  == [pool EXCEPT !.available = Tail(@)]
         IN  IF resetThrows
             THEN PoolOutcome(p1, "throw", NoObject, 0, obj)
             ELSE PoolOutcome([p1 EXCEPT !.active = @ \cup {obj}], "obj", obj, 0, obj)
    ELSE IF createThrows
    THEN PoolOutcome(pool, "throw", NoObject, 1, NoObject)
    ELSE PoolOutcome([pool EXCEPT !.active = @ \cup {made}], "obj", made, 1, NoObject)

\* made: the object createFn returns; createThrows, resetThrows: the
\* function throws when it is called
acquire(pool, made, createThrows, resetThrows) ==
    IF Len(pool.available) > 0
    THEN LET obj == pool.available[Len(pool.available)]
             p1  == [pool EXCEPT !.available = SubSeq(@, 1, Len(@) - 1)]
         IN  IF resetThrows
             THEN PoolOutcome(p1, "throw", NoObject, 0, obj)
             ELSE PoolOutcome([p1 EXCEPT !.active = @ \cup {obj}], "obj", obj, 0, obj)
    ELSE IF createThrows
    THEN PoolOutcome(pool, "throw", NoObject, 1, NoObject)
    ELSE PoolOutcome([pool EXCEPT !.active = @ \cup {made}], "obj", made, 1, NoObject)

\* a release that does not test whether the object is active
releaseUnchecked(pool, obj) ==
    LET p1 == [pool EXCEPT !.active = @ \ {obj}]
    IN  IF Len(p1.available) < p1.maxSize
        THEN PoolOutcome([p1 EXCEPT !.available = Append(@, obj)],
                         "ok", obj, 0, NoObject)
        ELSE PoolOutcome(p1, "ok", obj, 0, NoObject)

release(pool, obj) ==
    IF obj \in pool.active
    THEN LET p1 == [pool EXCEPT !.active = @ \ {obj}]
         IN  IF Len(p1.available) < p1.maxSize
             THEN PoolOutcome([p1 EXCEPT !.available = Append(@, obj)],
                              "ok", obj, 0, NoObject)
             ELSE PoolOutcome(p1, "ok", obj, 0, NoObject)
    ELSE PoolOutcome(pool, "ok", obj, 0, NoObject)

clear(pool) ==
    PoolOutcome([pool EXCEPT !.available = << >>, !.active = {}],
                "ok", NoObject, 0, NoObject)

\* the sequence s without the object obj
Without(s, obj) == SelectSeq(s, LAMBDA o : o # obj)

\* the pool after a call with outcome r
PoolBecomes(op, r) ==
    /\ available' = r.pool.available
    /\ active' = r.pool.active
    /\ maxSize' = r.pool.maxSize
    /\ poolCall' = [op |-> op, ret |-> r.ret, obj |-> r.obj,
                    created |-> r.created, reset |-> r.reset]

\* what the methods of the pool leave alone
PoolKeeps ==
    UNCHANGED <<world, initialized, isPaused, rigidBodies, nextBodyId,
                worldCount, engine, call, issued, events, growthVars, sceneVars>>

NewBacteriaPool ==
    \E size \in PoolSizes \cup {DefaultMaxSize} :
        /\ PoolBecomes("constructor", PoolOutcome(BacteriaPool(size), "ok",
                                                  NoObject, 0, NoObject))
        /\ released' = << >>
        /\ PoolKeeps

Acquire ==
    \E made \in PoolObjects, createThrows \in Booleans, resetThrows \in Booleans :
        /\ Len(available) > 0 => (~createThrows /\ made = 1)
        /\ Len(available) = 0 => ~resetThrows
        /\ LET r == acquire(Pool, made, createThrows, resetThrows)
           IN  /\ PoolBecomes("acquire", r)
               /\ released' = IF r.reset # NoObject THEN Without(released, r.reset)
                              ELSE IF r.ret = "obj" THEN Without(released, r.obj)
                              ELSE released
        /\ PoolKeeps

Release ==
    \E obj \in PoolObjects :
        /\ LET r == release(Pool, obj)
           IN  /\ PoolBecomes("release", r)
               /\ released' = IF r.pool.active # active
                              THEN Append(Without(released, obj), obj)
                              ELSE released
        /\ PoolKeeps

Clear ==
    /\ PoolBecomes("clear", clear(Pool))
    /\ released' = << >>
    /\ PoolKeeps

PoolNext ==
    \/ NewBacteriaPool
    \/ Acquire
    \/ Release
    \/ Clear

PoolSpec == Init /\ [][PoolNext]_vars

(***************************************************************************)
(* Vocabulary of the properties                                            *)
(***************************************************************************)
\* the module state of simulationManager.js and the physics worlds
registry == <<world, initialized, isPaused, rigidBodies, nextBodyId,
              worldCount, engine>>

\* the simulation is initialized: the guards of the exported functions pass
Ready == initialized /\ world # NoWorld

\* the body centre of entry id, as translation() returns it
PositionOf(id) ==
    engine[rigidBodies[id].w].bodies[rigidBodies[id].body].pos

\* entry id has a live body whose centre lies in [0,width] x [0,height]
InsideChamber(id, width, height) ==
    /\ BodyLive(engine, rigidBodies[id].w, rigidBodies[id].body)
    /\ 0 <= PositionOf(id)[1] /\ PositionOf(id)[1] <= width
    /\ 0 <= PositionOf(id)[2] /\ PositionOf(id)[2] <= height

\* entry id has a live body whose centre lies outside [0,width] x [0,height]
OutsideChamber(id, width, height) ==
    /\ BodyLive(engine, rigidBodies[id].w, rigidBodies[id].body)
    /\ ~InsideChamber(id, width, height)

\* the entries handleBoundaries(options) makes removal calls for
Leavers(options) ==
    { id \in DOMAIN rigidBodies : OutsideChamber(id, options.width, options.height) }

RECURSIVE Scaled(_, _)
\* length x 1.001^n, every product rounded to the nearest unit
Scaled(length, n) ==
    IF n = 0 THEN length
    ELSE (Scaled(length, n - 1) * 1001 + 500) \div 1000

\* the steps of updateBacteriumPositions in the order the frame loop is
\* to take them: boundaries, growth and physics step, read, reconcile
FrameOrder == <<"handleBoundaries", "updateSimulation", "getRigidBodies",
                "removeMeshes", "updateMeshes">>

\* s is an initial part of t
IsPrefix(s, t) == Len(s) <= Len(t) /\ SubSeq(t, 1, Len(s)) = s

\* the ids the meshes carry (NoId for a mesh without userData.id)
MeshIds == { bacteria[i].id : i \in 1..Len(bacteria) }

\* an animate() call is under way
InFrame == pc # "idle"

RECURSIVE Orders(_)
\* the sequences that enumerate the set S once
Orders(S) ==
    IF S = {} THEN { << >> }
    ELSE UNION { { <<x>> \o o : o \in Orders(S \ {x}) } : x \in S }

(***************************************************************************)
(* C1: in every reachable state the ids of the rigidBodies table are       *)
(* exactly the ids whose rigid body and collider are live in the physics   *)
(* world: every entry's body and collider are live in the current world,   *)
(* and every live body and collider of a world belongs to an entry.        *)
(***************************************************************************)
C1_RegistryMatchesEngine ==
    /\ \A id \in DOMAIN rigidBodies :
          /\ rigidBodies[id].w = world
          /\ BodyLive(engine, world, rigidBodies[id].body)
          /\ ColliderLive(engine, world, rigidBodies[id].collider)
    /\ \A k \in DOMAIN engine :
          /\ \A h \in DOMAIN engine[k].bodies :
                \E id \in DOMAIN rigidBodies :
                    rigidBodies[id].w = k /\ rigidBodies[id].body = h
          /\ \A c \in DOMAIN engine[k].colliders :
                \E id \in DOMAIN rigidBodies :
                    rigidBodies[id].w = k /\ rigidBodies[id].collider = c

(***************************************************************************)
(* C2: within one run the id returned by a successful createBacterium is   *)
(* greater than every id returned before it in that run (so the ids are    *)
(* pairwise distinct, and the id of an evicted entry is not handed out     *)
(* again).                                                                 *)
(***************************************************************************)
C2_IdsStrictlyIncreasing ==
    [][ (call'.op = "createBacterium" /\ call'.ret = "id")
            => \A j \in issued : j < call'.id ]_vars

\* a second id was handed out after the entry with the first id was evicted
C2_Witness ==
    /\ call.op = "createBacterium" /\ call.ret = "id" /\ call.id = 1
    /\ issued = {0, 1}
    /\ DOMAIN rigidBodies = {1}

C4_LengthNeverDecreases ==
    [][ (call'.op = "updateSimulation" /\ Ready /\ ~isPaused)
            => \A id \in (DOMAIN rigidBodies) \cap (DOMAIN rigidBodies') :
                  rigidBodies'[id].length >= rigidBodies[id].length ]_vars

(***************************************************************************)
(* C5: while the paused flag is set, updateSimulation returns without      *)
(* changing anything: lengths, entries, id counter and physics worlds (no  *)
(* step, no collider resize, no velocity write) stay as they were.         *)
(***************************************************************************)
C5_PausedUpdateIsNoOp ==
    [][ (call'.op = "updateSimulation" /\ isPaused)
            => call'.ret = "ok" /\ UNCHANGED registry ]_vars

\* updateSimulation was called on an initialized, paused simulation that
\* holds a bacterium still moving with its spawn velocity
C5_Witness ==
    /\ call.op = "updateSimulation"
    /\ Ready /\ isPaused
    /\ \E id \in DOMAIN rigidBodies :
          /\ BodyLive(engine, world, rigidBodies[id].body)
          /\ engine[world].bodies[rigidBodies[id].body].linvel # ZeroVel

(***************************************************************************)
(* C6: after any destroySimulation call on an initialized simulation, also *)
(* one during which an engine call throws, getRigidBodies returns an empty *)
(* mapping and the next createBacterium returns null instead of creating a *)
(* body.                                                                   *)
(***************************************************************************)
C6_TornDownAfterDestroy ==
    [][ (call'.op = "destroySimulation" /\ Ready)
            => /\ getRigidBodies(State)' = EmptyMap
               /\ \A options \in SpawnOptions, sample \in NormalSamples :
                     createBacterium(State, options, sample, "none")'.ret = "null" ]_vars

(***************************************************************************)
(* C7: while the simulation is uninitialized, updateSimulation,            *)
(* handleBoundaries, handleBoundaries2, pause and destroySimulation return *)
(* without throwing and leave the whole module state unchanged.            *)
(***************************************************************************)
C7_UninitializedCallsAreNoOps ==
    [][ (~initialized
         /\ call'.op \in {"updateSimulation", "handleBoundaries",
                          "handleBoundaries2", "pause", "destroySimulation"})
            => call'.ret # "throw" /\ UNCHANGED registry ]_vars

(***************************************************************************)
(* C8: createBacterium called while the physics world is absent returns    *)
(* null and changes nothing; the id counter then stands at 0, a following  *)
(* initSimulation leaves it there, and a successful createBacterium        *)
(* returns the value of the counter, so the first spawn after that         *)
(* initSimulation gets id 0.                                               *)
(***************************************************************************)
C8_SpawnWithoutWorldFails ==
    [][ /\ (call'.op = "createBacterium" /\ world = NoWorld)
            => /\ call'.ret = "null"
               /\ UNCHANGED registry
               /\ nextBodyId' = 0
        /\ (call'.op = "initSimulation" /\ world = NoWorld)
            => nextBodyId' = 0 /\ rigidBodies' = EmptyMap
        /\ (call'.op = "createBacterium" /\ call'.ret = "id")
            => call'.id = nextBodyId ]_vars

\* createBacterium returned null on a simulation that was torn down
C8_Witness ==
    /\ call.op = "createBacterium" /\ call.ret = "null"
    /\ world = NoWorld /\ worldCount = 1

(***************************************************************************)
(* C9: a successful createBacterium adds exactly one entry: the mapping of *)
(* getRigidBodies afterwards is the mapping before plus the returned id,   *)
(* whose length is 2 x radius; the other entries are unchanged.            *)
(***************************************************************************)
C9_SpawnAddsOneEntry ==
    [][ (call'.op = "createBacterium" /\ call'.ret = "id")
            => LET before == getRigidBodies(State)
                   after  == getRigidBodies(State)'
               IN  /\ call'.id \notin DOMAIN before
                   /\ DOMAIN after = (DOMAIN before) \cup {call'.id}
                   /\ after[call'.id].length = 2 * call'.radius
                   /\ \A j \in DOMAIN before : after[j] = before[j] ]_vars

\* a second bacterium was spawned next to an existing one
C9_Witness ==
    /\ call.op = "createBacterium" /\ call.ret = "id"
    /\ call.radius # 0
    /\ DOMAIN rigidBodies = {0, 1}

(***************************************************************************)
(* C10: destroySimulation on a torn-down or never-initialized simulation   *)
(* does not throw, logs no engine error, touches no physics handle and     *)
(* leaves the state as it was.                                             *)
(***************************************************************************)
C10_DestroyIsIdempotent ==
    [][ (call'.op = "destroySimulation" /\ ~Ready)
            => /\ call'.ret = "ok" /\ call'.errors = 0
               /\ UNCHANGED registry ]_vars

\* destroySimulation was called on a simulation already torn down (the flag
\* was flipped after the teardown, which leaves it set)
C10_Witness ==
    /\ call.op = "destroySimulation"
    /\ ~initialized /\ world = NoWorld /\ worldCount = 1
    /\ ~isPaused

(***************************************************************************)
(* C11: the initialized flag is raised only by an initSimulation call that *)
(* returns true and lowered only by a destroySimulation call; while it is  *)
(* down, updateSimulation and handleBoundaries return without changing     *)
(* anything and createBacterium returns null, so a torn-down registry      *)
(* stays uninitialized until a fresh initSimulation completes.             *)
(***************************************************************************)
C11_LifecycleOneWay ==
    [][ /\ (~initialized /\ initialized')
              => (call'.op = "initSimulation" /\ call'.ret = "true")
        /\ (initialized /\ ~initialized')
              => call'.op = "destroySimulation"
        /\ (~initialized /\ call'.op \in {"updateSimulation", "handleBoundaries"})
              => (call'.ret = "ok" /\ UNCHANGED registry)
        /\ (~initialized /\ call'.op = "createBacterium")
              => (call'.ret = "null" /\ UNCHANGED registry) ]_vars

\* a fresh initSimulation completed after the first world was torn down
C11_Witness ==
    /\ call.op = "initSimulation" /\ call.ret = "true"
    /\ initialized /\ world = 2
    /\ engine[1].freed

(***************************************************************************)
(* C13: an updateSimulation or handleBoundaries call that directly follows *)
(* a destroySimulation call returns normally and changes nothing: no       *)
(* growth, no eviction, no world step, no call into a physics world.       *)
(***************************************************************************)
C13_TicksAfterTeardownAreNoOps ==
    [][ (call.op = "destroySimulation"
         /\ call'.op \in {"updateSimulation", "handleBoundaries"})
            => (call'.ret = "ok" /\ UNCHANGED registry) ]_vars

(***************************************************************************)
(* C14: in every reachable initialized state, if removal calls throw for   *)
(* some of the entries outside the chamber during handleBoundaries (and    *)
(* translation() does not throw) then every other entry outside the        *)
(* chamber is evicted by that call; and                                    *)
(* if removal calls throw during destroySimulation, the call still ends    *)
(* with an empty table and with every other body and collider of the world *)
(* removed, whether or not world.free() then succeeds.                     *)
(***************************************************************************)
C14_BatchContinuesAfterThrow ==
    Ready =>
      LET ids == DOMAIN rigidBodies
          own == {id \in ids : rigidBodies[id].w = world}
      IN  /\ \A options \in Chambers :
               \A failColl \in SUBSET Leavers(options) :
                 \A failBody \in SUBSET (Leavers(options) \ failColl) :
                   LET r == handleBoundaries(State, options, failColl, failBody)
                   IN  r.ret = "ok" =>
                         \A id \in Leavers(options) \ (failColl \cup failBody) :
                            id \notin DOMAIN r.st.rigidBodies
          /\ \A coll \in SUBSET (DOMAIN engine[world].colliders),
                body \in SUBSET ids, free \in Booleans :
                 LET r == destroySimulation(State,
                              [forEach |-> FALSE, coll |-> coll,
                               body |-> body, free |-> free])
                 IN  /\ r.ret = "ok"
                     /\ r.st.rigidBodies = EmptyMap
                     /\ \A id \in own \ body :
                           ~BodyLive(r.st.engine, world, rigidBodies[id].body)
                     /\ \A c \in (DOMAIN engine[world].colliders) \ coll :
                           ~ColliderLive(r.st.engine, world, c)

\* a destroySimulation call during which a removal threw has emptied the
\* table, removed the body that was created and released the world
C14_Witness ==
    /\ call.op = "destroySimulation" /\ call.errors = 1
    /\ world = NoWorld /\ ~initialized
    /\ rigidBodies = EmptyMap
    /\ engine[1].freed /\ engine[1].nb = 1

(***************************************************************************)
(* C15: pause changes the paused flag to its negation and nothing else,    *)
(* so two calls in a row restore the state; and in every reachable         *)
(* initialized state createBacterium and handleBoundaries, whatever their  *)
(* arguments and whichever of their engine calls throw, return the same    *)
(* value and leave the same table, id counter and physics worlds with the  *)
(* flag set as with the flag clear, and leave the flag as it was.          *)
(***************************************************************************)
C15_PauseAffectsOnlyUpdate ==
    LET paused  == [State EXCEPT !.isPaused = TRUE]
        running == [State EXCEPT !.isPaused = FALSE]
        Same(a, b) == /\ a.ret = b.ret /\ a.id = b.id /\ a.errors = b.errors
                      /\ a.st.isPaused /\ ~b.st.isPaused
                      /\ [a.st EXCEPT !.isPaused = FALSE] = b.st
    IN  /\ pause(State).ret = "ok"
        /\ pause(State).st = [State EXCEPT !.isPaused = ~isPaused]
        /\ pause(pause(State).st).st = State
        /\ Ready =>
             /\ \A options \in SpawnOptions, sample \in NormalSamples,
                   fault \in CreateFaults :
                   Same(createBacterium(paused, options, sample, fault),
                        createBacterium(running, options, sample, fault))
             /\ \A options \in Chambers :
                   \A failColl \in SUBSET Leavers(options) :
                     \A failBody \in SUBSET (Leavers(options) \ failColl) :
                        Same(handleBoundaries(paused, options, failColl, failBody),
                             handleBoundaries(running, options, failColl, failBody))

\* the flag was just cleared on an initialized simulation that holds an
\* entry outside the 100 x 60 chamber, which handleBoundaries would evict
C15_Witness ==
    /\ call.op = "pause"
    /\ Ready /\ ~isPaused
    /\ \E id \in DOMAIN rigidBodies : OutsideChamber(id, 100, 60)

(***************************************************************************)
(* C16: a destroySimulation call on an initialized simulation leaves the   *)
(* table empty, the world absent and the id counter at 0, so that the      *)
(* first createBacterium after a following initSimulation returns id 0.    *)
(* (The call is one step of the model, so the order of its removals is     *)
(* not part of this formula.)                                              *)
(***************************************************************************)
C16_DestroyResetsForReuse ==
    [][ (call'.op = "destroySimulation" /\ Ready)
            => /\ rigidBodies' = EmptyMap
               /\ world' = NoWorld
               /\ nextBodyId' = 0
               /\ \A options \in SpawnOptions, sample \in NormalSamples :
                     createBacterium(initSimulation(State, TRUE).st,
                                     options, sample, "none")'.id = 0 ]_vars

(***************************************************************************)
(* C18: createBacterium called on an initialized simulation with a         *)
(* negative radius fails and leaves the registry unchanged: no entry, no   *)
(* body, no collider, no id consumed.                                      *)
(***************************************************************************)
C18_InvalidSpawnRejected ==
    [][ (call'.op = "createBacterium" /\ Ready /\ call'.radius < 0)
            => (call'.ret = "throw" /\ UNCHANGED registry) ]_vars

(***************************************************************************)
(* C20: across an updateSimulation call that is made while the simulation  *)
(* is initialized and not paused and that returns normally, the length of  *)
(* every entry becomes strictly greater.                                   *)
(***************************************************************************)
C20_LengthStrictlyIncreases ==
    [][ (call'.op = "updateSimulation" /\ Ready /\ ~isPaused
         /\ call'.ret = "ok")
            => \A id \in (DOMAIN rigidBodies) \cap (DOMAIN rigidBodies') :
                  rigidBodies'[id].length > rigidBodies[id].length ]_vars

C12_FrameOrder ==
    [][ /\ IsPrefix(frame', FrameOrder)
        /\ (InFrame /\ DOMAIN rigidBodies' # DOMAIN rigidBodies)
              => frame = << >>
        /\ (InFrame /\ frame # << >> /\ <<rigidBodies, engine>>' # <<rigidBodies, engine>>)
              => (frame = <<"handleBoundaries">>
                  /\ DOMAIN rigidBodies' = DOMAIN rigidBodies)
        /\ (InFrame /\ bacteria' # bacteria)
              => (IsPrefix(SubSeq(FrameOrder, 1, 3), frame)
                  /\ UNCHANGED registry) ]_vars

\* a frame has run to its end in which an entry that had left the chamber
\* was evicted and its mesh removed, and the entry that stayed has grown
\* and its mesh has been resized
C12_Witness ==
    /\ pc = "idle" /\ frame = FrameOrder
    /\ Len(physicsBacteria) = 2 /\ Len(bacteria) = 1
    /\ MeshIds = DOMAIN rigidBodies
    /\ \A i \in 1..Len(bacteria) :
          /\ rigidBodies[bacteria[i].id].length > 2 * defaultParams.bacteriaRadius
          /\ bacteria[i].length = 2 * rigidBodies[bacteria[i].id].length

(***************************************************************************)
(* C17: when the sync step of a frame has run to its end, the meshes of    *)
(* the bacteria array and the entries of the rigidBodies table correspond  *)
(* one to one: every mesh carries the id of an entry, no two meshes carry  *)
(* the same id, and every entry has a mesh.                                *)
(***************************************************************************)
C17_MeshesMatchRegistry ==
    [][ (pc = "updateMeshes" /\ pc' = "idle" /\ frame' = FrameOrder)
            => /\ MeshIds' = DOMAIN rigidBodies'
               /\ Cardinality(MeshIds') = Len(bacteria') ]_vars

\* across the step, every entry has grown by the factor 1.001, its collider
\* has the new half height and its body is at rest
AllGrownAndAtRest ==
    \A id \in DOMAIN rigidBodies :
        /\ id \in DOMAIN rigidBodies'
        /\ rigidBodies'[id].length = Scaled(rigidBodies[id].length, 1)
        /\ LET e == rigidBodies'[id]
           IN  /\ ColliderLive(engine', e.w, e.collider)
               /\ engine'[e.w].colliders[e.collider].halfHeight = e.length
               /\ BodyLive(engine', e.w, e.body)
               /\ engine'[e.w].bodies[e.body].linvel = ZeroVel

\* the world steps made by the current world across the step
StepsMade == engine'[world].steps - engine[world].steps

SceneResumed == awaiting'.scene = awaiting.scene - 1

(***************************************************************************)
(* C22: when an initScene call resumes right after its initSimulation has  *)
(* returned true and no engine call throws while it creates its N          *)
(* bacteria, then at its end the registry holds exactly the entries        *)
(* 0..N-1, the bacteria array holds exactly N meshes tagged with the ids   *)
(* 0..N-1, one each, every body lies inside [0,width] x [0,height], and a  *)
(* handleBoundaries call with the scene's parameters evicts nothing.       *)
(***************************************************************************)
C22_SceneHoldsNBacteria ==
    [][ (SceneResumed /\ call.op = "initSimulation" /\ call.ret = "true"
         /\ call'.ret # "throw")
            => LET N == defaultParams.numberOfBacteria
               IN  /\ DOMAIN rigidBodies' = 0..(N - 1)
                   /\ Len(bacteria') = N
                   /\ MeshIds' = 0..(N - 1)
                   /\ \A id \in DOMAIN rigidBodies' :
                         InsideChamber(id, defaultParams.width,
                                       defaultParams.height)'
                   /\ handleBoundaries(State, defaultParams, {}, {})'.st.rigidBodies
                         = rigidBodies' ]_vars

(***************************************************************************)
(* C23: right after an initSimulation call that returned true, also one    *)
(* made on a simulation that is already initialized, the table is empty    *)
(* and the id counter is 0; and after every step every entry of the table  *)
(* refers to a body of the current physics world.                          *)
(***************************************************************************)
C23_InitStartsEmpty ==
    [][ /\ (call'.op = "initSimulation" /\ call'.ret = "true")
              => (rigidBodies' = EmptyMap /\ nextBodyId' = 0)
        /\ \A id \in DOMAIN rigidBodies' : rigidBodies'[id].w = world' ]_vars

(***************************************************************************)
(* C24: right after an initSimulation call that returned true the paused   *)
(* flag is set, whatever calls preceded it; and an updateSimulation call   *)
(* that directly follows it changes nothing (no growth, no world step).    *)
(***************************************************************************)
C24_InitLeavesPaused ==
    [][ /\ (call'.op = "initSimulation" /\ call'.ret = "true") => isPaused'
        /\ (call.op = "initSimulation" /\ call.ret = "true"
            /\ call'.op = "updateSimulation")
              => UNCHANGED registry ]_vars

(***************************************************************************)
(* C25: a createBacterium call that throws, because createRigidBody,       *)
(* createCollider or setLinvel threw, leaves the table, the id counter and *)
(* the physics worlds as they were: no body or collider has been added.    *)
(***************************************************************************)
C25_FailedSpawnLeavesNothing ==
    [][ (call'.op = "createBacterium" /\ call'.ret = "throw")
            => UNCHANGED registry ]_vars

(***************************************************************************)
(* C26: the scene's simulationInitialized flag is set only while the       *)
(* registry is initialized; and when an initScene call resumes right after *)
(* its initSimulation has returned false, it leaves the flag clear, adds   *)
(* no mesh to the bacteria array, and the frame it starts does not enter   *)
(* the body of updateBacteriumPositions.                                   *)
(***************************************************************************)
C26_SceneFlagFollowsRegistry ==
    [][ /\ simulationInitialized' => initialized'
        /\ (SceneResumed /\ call.op = "initSimulation" /\ call.ret = "false")
              => /\ ~simulationInitialized'
                 /\ bacteria' = bacteria
                 /\ pc' = "idle" ]_vars

\* the physics worlds constructed and not freed
LiveWorlds == { k \in DOMAIN engine : ~engine[k].freed }

(***************************************************************************)
(* C27: in every reachable state at most one animation frame is requested  *)
(* from the host (every running animate() chain has exactly one request    *)
(* pending) and at most one physics world is constructed and not freed;    *)
(* and once every initScene call made has run to its end, exactly one      *)
(* frame is requested.                                                     *)
(***************************************************************************)
C27_OneLoopOneWorld ==
    /\ Cardinality(requested) <= 1
    /\ Cardinality(LiveWorlds) <= 1
    /\ (defaultParams # NoParams /\ awaiting = [init |-> 0, scene |-> 0])
          => Cardinality(requested) = 1

\* across a handleBoundaries2 step: the table has the same entries with the
\* same lengths, the id counter is as before, and an entry whose body was
\* inside [0,width] x [0,height] has its body where it was
WrapKeepsEntries(width, height) ==
    /\ DOMAIN rigidBodies' = DOMAIN rigidBodies
    /\ nextBodyId' = nextBodyId
    /\ \A id \in DOMAIN rigidBodies :
          /\ rigidBodies'[id] = rigidBodies[id]
          /\ InsideChamber(id, width, height)
                => /\ InsideChamber(id, width, height)'
                   /\ PositionOf(id)' = PositionOf(id)

\* the step is a call handleBoundaries2(options) on an initialized simulation
Wrapped(options) ==
    /\ call'.op = "handleBoundaries2" /\ Ready
    /\ call'.width = options.width /\ call'.height = options.height

AvailableObjects == { available[i] : i \in 1..Len(available) }

(***************************************************************************)
(* C29: in every reachable state of the pool no object is both in the      *)
(* active set and in the available array, no object occurs twice in the    *)
(* available array, and the available array holds at most maxSize objects. *)
(***************************************************************************)
C29_PoolSetsDisjoint ==
    /\ AvailableObjects \cap active = {}
    /\ Cardinality(AvailableObjects) = Len(available)
    /\ Len(available) <= maxSize

\* a release has just dropped an object because the array of a pool of
\* size 1 is full, while another object is still active
C29_Witness ==
    /\ poolCall.op = "release"
    /\ maxSize = 1 /\ Len(available) = 1
    /\ poolCall.obj \notin AvailableObjects \cup active
    /\ active # {}

\* the place of object o in the order of the releases
ReleaseRank(o) == CHOOSE i \in 1..Len(released) : released[i] = o

\* across the step: release(obj) with obj not active changes no field of
\* the pool; acquire with an empty array calls createFn once and resetFn
\* not at all; acquire with a non-empty array does not call createFn
ReleaseAndCreateRules ==
    /\ (poolCall'.op = "release" /\ poolCall'.obj \notin active)
          => UNCHANGED <<available, active, maxSize>>
    /\ (poolCall'.op = "acquire" /\ available = << >>)
          => (poolCall'.created = 1 /\ poolCall'.reset = NoObject)
    /\ (poolCall'.op = "acquire" /\ available # << >>)
          => /\ poolCall'.created = 0
             /\ poolCall'.reset # NoObject
             /\ poolCall'.ret = "obj"
                   => (poolCall'.obj = poolCall'.reset /\ poolCall'.obj \in active')

(***************************************************************************)
(* C30, as stated: release(obj) changes the pool only when obj is active;  *)
(* acquire on a pool whose available array is not empty calls resetFn on   *)
(* the object released most recently (of those not taken out of the pool   *)
(* since) and returns it, without calling createFn; acquire on a pool      *)
(* whose available array is empty calls createFn exactly once.             *)
(***************************************************************************)
C30_AcquireReturnsLastReleased ==
    [][ /\ ReleaseAndCreateRules
        /\ (poolCall'.op = "acquire" /\ available # << >>)
              => poolCall'.reset = released[Len(released)] ]_vars

(***************************************************************************)
(* C30, amended: release(obj) changes the pool only when obj is active;    *)
(* acquire on a pool whose available array is not empty calls resetFn on   *)
(* the most recently released of the objects in the available array and    *)
(* returns it, without calling createFn; acquire on a pool whose available *)
(* array is empty calls createFn exactly once.                             *)
(***************************************************************************)
C30_AcquireReturnsLastKept ==
    [][ /\ ReleaseAndCreateRules
        /\ (poolCall'.op = "acquire" /\ available # << >>)
              => /\ poolCall'.reset \in AvailableObjects
                 /\ \A o \in AvailableObjects :
                       ReleaseRank(o) <= ReleaseRank(poolCall'.reset) ]_vars

\* acquire has handed out an object of the available array although an
\* object released after it, which the full array did not take, is the one
\* released most recently
C30_Witness ==
    /\ poolCall.op = "acquire" /\ poolCall.ret = "obj" /\ poolCall.created = 0
    /\ poolCall.obj \in active
    /\ \E o \in PoolObjects :
          /\ o \notin AvailableObjects \cup active
          /\ \E i \in 1..Len(released) : released[i] = o

====
